---------------------------- MODULE Spec2Model ----------------------------
(***************************************************************************)
(* Model of the NEAR Lake accounts watcher (src/src/main.rs).              *)
(*                                                                         *)
(* main builds the watch-list from the --accounts argument, instantiates   *)
(* the Lake stream and drives it through                                   *)
(*   ReceiverStream -> map(handle_streamer_message) -> buffer_unordered(1) *)
(* until the stream ends.  handle_streamer_message walks the shards and    *)
(* the state changes of one block and prints two lines for every state     *)
(* change whose account_id is in the watch-list.                           *)
(*                                                                         *)
(* Strings are sequences of one-character strings, so that splitting,      *)
(* validation and comparison are computed character by character.          *)
(***************************************************************************)
EXTENDS Integers, Sequences, FiniteSets, TLC

VARIABLES
    accounts,            \* opts.accounts: the raw --accounts argument
    start_block_height,  \* opts.block_height
    pc,                  \* position of main
    watching_list,       \* the Vec<String> built at lines 34-42
    feedOpen,            \* the sender half of the Lake channel is alive
    sent,                \* every StreamerMessage the feed has sent, in order
    chan,                \* messages waiting in the Lake channel
    in_progress,         \* the futures held by buffer_unordered
    stdout,              \* the lines written by println!, in order
    origin,              \* history: for each line of stdout, the place
                         \* <<block number, shard, change>> it was written for
    probe,               \* argument/result cell of the pure-function checks
    feedError,           \* history: the sender was dropped on a failure
    sinkReady            \* the reader of stdout takes what is written

vars == <<accounts, start_block_height, pc, watching_list, feedOpen, sent,
          chan, in_progress, stdout, origin, probe, feedError, sinkReady>>

pipeVars == <<accounts, start_block_height, pc, watching_list, feedOpen, sent,
              chan, in_progress, stdout, origin, feedError, sinkReady>>

---------------------------------------------------------------------------
(* Bounds of the model                                                     *)

\* number of blocks the feed delivers before it closes
MaxBlocks == 2
\* capacity of the channel between the Lake framework and main
ChanCap == 2
\* longest watch-list handed to is_change_watched in the function checks
MaxWatch == 2
\* longest raw string handed to AccountId::from_str in the function checks
MaxRawLen == 3

---------------------------------------------------------------------------
(* Strings                                                                 *)

Lower      == {"a", "b", "c"}
Digits     == {"0"}
Separators == {"-", "_", "."}
Comma      == ","

RECURSIVE IndexOf(_, _, _)
\* first index >= i of character ch in s, 0 when there is none
IndexOf(s, ch, i) ==
    IF i > Len(s) THEN 0
    ELSE IF s[i] = ch THEN i
    ELSE IndexOf(s, ch, i + 1)

RECURSIVE Split(_, _)
\* str::split(sep): the pieces between separators; "" splits into [""]
Split(s, sep) ==
    LET i == IndexOf(s, sep, 1) IN
    IF i = 0 THEN <<s>>
    ELSE <<SubSeq(s, 1, i - 1)>> \o Split(SubSeq(s, i + 1, Len(s)), sep)

\* str::starts_with
StartsWith(s, p) == Len(p) <= Len(s) /\ SubSeq(s, 1, Len(p)) = p

---------------------------------------------------------------------------
(* AccountId::from_str, as called at line 38                               *)

MIN_LEN == 2
MAX_LEN == 64

RECURSIVE ValidChars(_, _, _)
\* the character scan of the account-id grammar: lowercase letters and
\* digits, separated by single '-', '_' or '.', no separator first or last
ValidChars(s, i, lastSep) ==
    IF i > Len(s) THEN ~lastSep
    ELSE IF s[i] \in Lower \cup Digits THEN ValidChars(s, i + 1, FALSE)
    ELSE IF s[i] \in Separators THEN ~lastSep /\ ValidChars(s, i + 1, TRUE)
    ELSE FALSE

is_valid(s) ==
    /\ Len(s) >= MIN_LEN
    /\ Len(s) <= MAX_LEN
    /\ ValidChars(s, 1, TRUE)

\* Result<AccountId, ParseAccountError>
from_str(s) ==
    IF is_valid(s) THEN [ok |-> TRUE, id |-> s] ELSE [ok |-> FALSE, id |-> s]

\* to_string writing the id as a quoted string, as {:?} would
to_string_quoted(id) == <<"\"">> \o id \o <<"\"">>

\* AccountId::to_string
to_string(id) == id

---------------------------------------------------------------------------
(* State changes and their JSON form                                       *)

ab   == <<"a", "b">>
abc  == <<"a", "b", "c">>
c_ab == <<"c", ".", "a", "b">>

\* the account ids that occur in the records of the feed
FeedAccounts == {ab, abc, c_ab}

\* the variants of StateChangeValueView
Kinds == {"AccountUpdate", "AccountDeletion", "AccessKeyUpdate",
          "AccessKeyDeletion", "DataUpdate", "DataDeletion",
          "ContractCodeUpdate", "ContractCodeDeletion"}

\* serde's rename_all = "snake_case" of the variant names
SnakeCase(kind) ==
    CASE kind = "AccountUpdate"        -> "account_update"
      [] kind = "AccountDeletion"      -> "account_deletion"
      [] kind = "AccessKeyUpdate"      -> "access_key_update"
      [] kind = "AccessKeyDeletion"    -> "access_key_deletion"
      [] kind = "DataUpdate"           -> "data_update"
      [] kind = "DataDeletion"         -> "data_deletion"
      [] kind = "ContractCodeUpdate"   -> "contract_code_update"
      [] kind = "ContractCodeDeletion" -> "contract_code_deletion"

\* a StateChangeWithCauseView: the cause and the value (variant, the
\* account_id every variant holds, and the rest of the variant's fields)
StateChange(kind, id, rest) ==
    [cause |-> "transaction_processing",
     value |-> [kind |-> kind, account_id |-> id, rest |-> rest]]

\* serde_json::Value
JNull      == [t |-> "null",   v |-> <<>>]
JString(s) == [t |-> "string", v |-> s]
JObject(f) == [t |-> "object", v |-> f]

\* value[key]: Null when value is no object or has no such key
JIndex(value, key) ==
    IF value.t = "object" /\ key \in DOMAIN value.v THEN value.v[key]
    ELSE JNull

\* Value::as_str: Some(s) for a JSON string, None otherwise
as_str(value) ==
    IF value.t = "string" THEN [some |-> TRUE, s |-> value.v]
    ELSE [some |-> FALSE, s |-> <<>>]

\* serde_json::to_value of a state change: the cause, and the value
\* flattened as {"type": <snake case variant>, "change": {<fields>}}
to_value(state_change) ==
    JObject([cause  |-> JString(state_change.cause),
             type   |-> JString(SnakeCase(state_change.value.kind)),
             change |-> JObject(
                 [account_id |-> JString(to_string(state_change.value.account_id)),
                  rest       |-> JString(state_change.value.rest)])])

\* Vec::contains: some element equals x
Contains(list, x) == \E i \in 1..Len(list) : list[i] = x

\* account_id_of looking for account_id beside "type" and "change"
account_id_of_toplevel(state_change) ==
    as_str(JIndex(to_value(state_change), "account_id"))

\* lines 117-120: value["change"]["account_id"].as_str(); None makes the
\* unwrap() of line 120 panic
account_id_of(state_change) ==
    as_str(JIndex(JIndex(to_value(state_change), "change"), "account_id"))

\* is_change_watched with a prefix test in place of equality
is_change_watched_prefix(state_change, list) ==
    LET account_id == account_id_of(state_change)
    IN  IF ~account_id.some THEN [panic |-> TRUE, watched |-> FALSE]
        ELSE [panic   |-> FALSE,
              watched |-> \E i \in 1..Len(list) :
                              StartsWith(account_id.s, list[i])]

\* is_change_watched looking at the first entry of the list only
is_change_watched_first(state_change, list) ==
    LET account_id == account_id_of(state_change)
    IN  IF ~account_id.some THEN [panic |-> TRUE, watched |-> FALSE]
        ELSE [panic   |-> FALSE,
              watched |-> list # <<>> /\ list[1] = account_id.s]

\* is_change_watched, lines 109-124.  panic is the unwrap() of line 120.
is_change_watched(state_change, list) ==
    LET account_id == account_id_of(state_change)
    IN  IF ~account_id.some THEN [panic |-> TRUE, watched |-> FALSE]
        ELSE [panic |-> FALSE, watched |-> Contains(list, account_id.s)]

---------------------------------------------------------------------------
(* Inputs: the --accounts arguments and the blocks of the feed             *)

\* "ab"  "abc"  "ab,abc"  "ab,ab"  "c.ab,abc"
\* ""  "ab,"  "ab,!b"  ".ab"
AccountsArgs ==
    { ab, abc,
      <<"a", "b", ",", "a", "b", "c">>,
      <<"a", "b", ",", "a", "b">>,
      <<"c", ".", "a", "b", ",", "a", "b", "c">>,
      <<>>,
      <<"a", "b", ",">>,
      <<"a", "b", ",", "!", "b">>,
      <<".", "a", "b">> }

StartHeights == {100}

\* heights the feed may skip before the next block
HeightSkips == {0, 1}

rA1 == StateChange("DataUpdate", ab, "key,value")
rA2 == StateChange("AccessKeyDeletion", ab, "public_key")
rB  == StateChange("AccountUpdate", abc, "amount")
rC  == StateChange("ContractCodeUpdate", c_ab, "code")

\* the shards of a block, each the list of its state changes
BlockShapes ==
    { <<>>,
      << <<rA1, rB>> >>,
      << <<rA1>>, <<rA2, rA1>> >>,
      << <<>>, <<rB, rC>> >>,
      << <<rA1, rA1>> >>,
      << <<rC>>, <<rA2>> >> }

\* a StreamerMessage
StreamerMessage(height, shape) ==
    [block  |-> [header |-> [height |-> height]],
     shards |-> [i \in 1..Len(shape) |-> [state_changes |-> shape[i]]]]

---------------------------------------------------------------------------
(* main, lines 24-77                                                       *)

\* number of futures buffer_unordered keeps in flight, line 71
BufferSize == 1

\* parse_accounts leaving out the pieces that are no account ids
parse_accounts_partial(arg) ==
    LET pieces == Split(arg, Comma)
        ok(piece) == from_str(piece).ok
        kept == SelectSeq(pieces, ok)
    IN  [panic |-> FALSE,
         list  |-> [i \in 1..Len(kept) |-> to_string(from_str(kept[i]).id)]]

\* lines 34-42: split on ',', parse every piece, panic on the first piece
\* that is no account id, collect the strings otherwise
parse_accounts(arg) ==
    LET pieces == Split(arg, Comma)
        parsed == [i \in 1..Len(pieces) |-> from_str(pieces[i])]
    IN  IF \E i \in 1..Len(pieces) : ~parsed[i].ok
        THEN [panic |-> TRUE, list |-> <<>>]
        ELSE [panic |-> FALSE,
              list  |-> [i \in 1..Len(pieces) |-> to_string(parsed[i].id)]]

Init ==
    /\ accounts \in AccountsArgs
    /\ start_block_height \in StartHeights
    /\ pc = "args"
    /\ watching_list = <<>>
    /\ feedOpen = FALSE
    /\ sent = <<>>
    /\ chan = <<>>
    /\ in_progress = <<>>
    /\ stdout = <<>>
    /\ origin = <<>>
    /\ probe = "none"
    /\ feedError = FALSE
    /\ sinkReady = TRUE

\* lines 34-42
BuildWatchingList ==
    /\ pc = "args"
    /\ LET r == parse_accounts(accounts) IN
       IF r.panic
       THEN /\ pc' = "panicked"
            /\ UNCHANGED watching_list
       ELSE /\ pc' = "config"
            /\ watching_list' = r.list
    /\ UNCHANGED <<accounts, start_block_height, feedOpen, sent, chan,
                   in_progress, stdout, origin, probe, feedError, sinkReady>>

\* lines 52-71: the config, the streamer and the handlers stream
InstantiateStream ==
    /\ pc = "config"
    /\ pc' = "loop"
    /\ feedOpen' = TRUE
    /\ UNCHANGED <<accounts, start_block_height, watching_list, sent, chan,
                   in_progress, stdout, origin, probe, feedError, sinkReady>>

---------------------------------------------------------------------------
(* The Lake framework's side of the channel created at line 66            *)

\* the height of the next block: the start height or later for the first
\* block, above the last height afterwards
NextHeights ==
    LET base == IF sent = <<>> THEN start_block_height
                ELSE sent[Len(sent)].block.header.height + 1
    IN  {base + d : d \in HeightSkips}

FeedSend ==
    /\ feedOpen
    /\ pc = "loop"
    /\ Len(sent) < MaxBlocks
    /\ Len(chan) < ChanCap
    /\ \E h \in NextHeights, shape \in BlockShapes :
          LET msg == StreamerMessage(h, shape) IN
          /\ sent' = Append(sent, msg)
          /\ chan' = Append(chan, msg)
    /\ UNCHANGED <<accounts, start_block_height, pc, watching_list, feedOpen,
                   in_progress, stdout, origin, probe, feedError, sinkReady>>

\* the sender is dropped: the stream ends once the channel is drained
FeedClose ==
    /\ feedOpen
    /\ feedOpen' = FALSE
    /\ UNCHANGED <<accounts, start_block_height, pc, watching_list, sent,
                   chan, in_progress, stdout, origin, probe, feedError, sinkReady>>

---------------------------------------------------------------------------
(* The handlers stream, lines 69-74                                        *)

\* Recv taking the newest message of the channel
RecvNewest(q) == [msg |-> q[Len(q)], rest |-> SubSeq(q, 1, Len(q) - 1)]

\* Receiver::recv: the oldest message of the channel
Recv(q) == [msg |-> Head(q), rest |-> Tail(q)]

\* CanPull letting one future more than the bound in
CanPullAtBound == Len(in_progress) <= BufferSize

\* CanPull stopping one future short of the bound
CanPullBelowBound == Len(in_progress) < BufferSize - 1

\* buffer_unordered polls the stream only while it holds fewer futures
\* than its bound
CanPull == Len(in_progress) < BufferSize

RECURSIVE ChangesFrom(_, _, _)
\* the places <<shard, change>> of the state changes of shard, from change on
ChangesFrom(msg, shard, change) ==
    IF change > Len(msg.shards[shard].state_changes) THEN <<>>
    ELSE <<<<shard, change>>>> \o ChangesFrom(msg, shard, change + 1)

RECURSIVE ShardsFrom(_, _)
\* the places visited from shard on: shard by shard, change by change
ShardsFrom(msg, shard) ==
    IF shard > Len(msg.shards) THEN <<>>
    ELSE ChangesFrom(msg, shard, 1) \o ShardsFrom(msg, shard + 1)

RECURSIVE ShardsDownFrom(_, _)
ShardsDownFrom(msg, shard) ==
    IF shard < 1 THEN <<>>
    ELSE ChangesFrom(msg, shard, 1) \o ShardsDownFrom(msg, shard - 1)

\* visit_order walking the shards from the last to the first
visit_order_reversed(msg) == ShardsDownFrom(msg, Len(msg.shards))

\* the places the two loops of lines 88-89 visit, in the order they do
visit_order(msg) == ShardsFrom(msg, 1)

\* history: the number of the message in the feed (heights are distinct)
SeqOf(msg) == CHOOSE k \in 1..Len(sent) : sent[k] = msg

\* NewHandler leaving out of the list the accounts already reported
NewHandlerOnce(msg, list) ==
    LET reported == {stdout[i].json.v.change.v.account_id.v :
                        i \in {j \in 1..Len(stdout) : stdout[j].line = "body"}}
        fresh(a) == a \notin reported
    IN  [streamer_message |-> msg,
         watching_list    |-> SelectSeq(list, fresh),
         order            |-> visit_order(msg),
         next             |-> 1,
         phase            |-> "match"]

\* the future made by the closure of line 70: the message, a clone of the
\* watch-list, and where the handler stands: the places its loops visit,
\* the next of them, and whether the first line of that place is printed
NewHandler(msg, list) ==
    [streamer_message |-> msg,
     watching_list    |-> list,
     order            |-> visit_order(msg),
     next             |-> 1,
     phase            |-> "match"]

Finished(fut) == fut.next > Len(fut.order)

\* the place the handler stands at
At(fut) == fut.order[fut.next]

Current(fut) ==
    fut.streamer_message.shards[At(fut)[1]].state_changes[At(fut)[2]]

RECURSIVE NextDifferent(_, _, _)
NextDifferent(fut, k, change) ==
    LET order == fut.order IN
    IF k > Len(order) THEN k
    ELSE IF fut.streamer_message.shards[order[k][1]].state_changes[order[k][2]]
              = change
         THEN NextDifferent(fut, k + 1, change)
         ELSE k

\* Advance passing over the state changes equal to the one just handled
AdvanceDedup(fut) ==
    [fut EXCEPT !.next = NextDifferent(fut, fut.next + 1, Current(fut)),
                !.phase = "match"]

\* Advance taking the account just handled off the handler's list
AdvanceConsuming(fut) ==
    LET other(a) == a # Current(fut).value.account_id IN
    [fut EXCEPT !.next = fut.next + 1,
                !.phase = "match",
                !.watching_list = SelectSeq(fut.watching_list, other)]

\* the handler moves on to the next state change
Advance(fut) == [fut EXCEPT !.next = fut.next + 1, !.phase = "match"]

\* header_line with the height of the newest message of the feed
header_line_newest(fut, changes_json) ==
    [line   |-> "header",
     height |-> sent[Len(sent)].block.header.height,
     type   |-> JIndex(changes_json, "type")]

\* the println! of lines 98-102
header_line(fut, changes_json) ==
    [line   |-> "header",
     height |-> fut.streamer_message.block.header.height,
     type   |-> JIndex(changes_json, "type")]

\* the println! of line 103
body_line(changes_json) ==
    [line |-> "body", json |-> changes_json]

\* println! giving up the line when stdout does not take it
println_lossy(out, line) ==
    [blocked |-> FALSE, out |-> IF sinkReady THEN Append(out, line) ELSE out]

\* println!: a blocking write to stdout; the line is appended once the
\* reader takes it, and the caller waits until then
println(out, line) ==
    IF sinkReady THEN [blocked |-> FALSE, out |-> Append(out, line)]
    ELSE [blocked |-> TRUE, out |-> out]

RemoveAt(q, i) == SubSeq(q, 1, i - 1) \o SubSeq(q, i + 1, Len(q))

\* the stream yields a message, the closure of line 70 makes its future
Pull ==
    /\ pc = "loop"
    /\ CanPull
    /\ chan # <<>>
    /\ LET r == Recv(chan) IN
       /\ chan' = r.rest
       /\ in_progress' =
             Append(in_progress,
                    NewHandler(r.msg, watching_list))
    /\ UNCHANGED <<accounts, start_block_height, pc, watching_list, feedOpen,
                   sent, stdout, origin, probe, feedError, sinkReady>>

\* lines 92-102: test the state change; print the first line if watched
HandleStateChange(i) ==
    /\ pc = "loop"
    /\ ~Finished(in_progress[i])
    /\ in_progress[i].phase = "match"
    /\ \E fut \in {in_progress[i]} :
       \E m \in {is_change_watched(Current(fut), fut.watching_list)} :
           IF m.panic
           THEN /\ pc' = "panicked"
                /\ UNCHANGED <<in_progress, stdout, origin>>
           ELSE IF m.watched
           THEN /\ \E w \in {println(stdout,
                                     header_line(fut, to_value(Current(fut))))} :
                      /\ ~w.blocked
                      /\ stdout' = w.out
                /\ origin' = Append(origin,
                                    <<SeqOf(fut.streamer_message)>> \o At(fut))
                /\ in_progress' = [in_progress EXCEPT ![i].phase = "body"]
                /\ pc' = pc
           ELSE /\ in_progress' = [in_progress EXCEPT ![i] = Advance(fut)]
                /\ UNCHANGED <<pc, stdout, origin>>
    /\ UNCHANGED <<accounts, start_block_height, watching_list, feedOpen,
                   sent, chan, probe, feedError, sinkReady>>

\* line 103: print the second line
PrintBody(i) ==
    /\ pc = "loop"
    /\ ~Finished(in_progress[i])
    /\ in_progress[i].phase = "body"
    /\ LET fut == in_progress[i] IN
       /\ \E w \in {println(stdout, body_line(to_value(Current(fut))))} :
             /\ ~w.blocked
             /\ stdout' = w.out
       /\ origin' = Append(origin, <<SeqOf(fut.streamer_message)>> \o At(fut))
       /\ in_progress' = [in_progress EXCEPT ![i] = Advance(fut)]
    /\ UNCHANGED <<accounts, start_block_height, pc, watching_list, feedOpen,
                   sent, chan, probe, feedError, sinkReady>>

\* the future completes and handlers.next() yields it, line 74
HandlerReturn(i) ==
    /\ pc = "loop"
    /\ Finished(in_progress[i])
    /\ in_progress' = RemoveAt(in_progress, i)
    /\ UNCHANGED <<accounts, start_block_height, pc, watching_list, feedOpen,
                   sent, chan, stdout, origin, probe, feedError, sinkReady>>

\* the stream has ended: the sender is gone and the channel is empty
StreamEnded == ~feedOpen /\ chan = <<>>

\* handlers.next() yields None, main returns Ok(()), lines 74-76
MainReturn ==
    /\ pc = "loop"
    /\ StreamEnded
    /\ in_progress = <<>>
    /\ pc' = "done"
    /\ UNCHANGED <<accounts, start_block_height, watching_list, feedOpen,
                   sent, chan, in_progress, stdout, origin, probe, feedError, sinkReady>>

Next ==
    \/ BuildWatchingList
    \/ InstantiateStream
    \/ FeedSend
    \/ FeedClose
    \/ Pull
    \/ \E i \in 1..Len(in_progress) : HandleStateChange(i)
    \/ \E i \in 1..Len(in_progress) : PrintBody(i)
    \/ \E i \in 1..Len(in_progress) : HandlerReturn(i)
    \/ MainReturn

Spec == Init /\ [][Next]_vars

---------------------------------------------------------------------------
(* is_change_watched applied to every record and watch-list               *)

BoundedSeq(S, n) == UNION {[1..k -> S] : k \in 0..n}

ProbeChanges == {StateChange(k, id, "rest") : k \in Kinds, id \in FeedAccounts}

InitMatch ==
    /\ accounts = <<>>
    /\ start_block_height \in StartHeights
    /\ pc = "probe"
    /\ watching_list = <<>>
    /\ feedOpen = FALSE
    /\ sent = <<>>
    /\ chan = <<>>
    /\ in_progress = <<>>
    /\ stdout = <<>>
    /\ origin = <<>>
    /\ feedError = FALSE
    /\ sinkReady = TRUE
    /\ \E sc \in ProbeChanges, list \in BoundedSeq(FeedAccounts, MaxWatch) :
          probe = [state_change |-> sc, list |-> list, applied |-> FALSE,
                   owner |-> [some |-> FALSE, s |-> <<>>],
                   out |-> [panic |-> FALSE, watched |-> FALSE]]

ApplyIsChangeWatched ==
    /\ pc = "probe"
    /\ ~probe.applied
    /\ probe' = [probe EXCEPT
                   !.applied = TRUE,
                   !.owner = account_id_of(probe.state_change),
                   !.out = is_change_watched(probe.state_change, probe.list)]
    /\ UNCHANGED pipeVars

NextMatch == ApplyIsChangeWatched

SpecMatch == InitMatch /\ [][NextMatch]_vars

\* the account ids of a watch-list, as a set
Members(list) == {list[i] : i \in 1..Len(list)}

\* C1: is_change_watched(r, W) is true exactly when the account_id held by
\* r is an element of W (equal character by character), and is false for
\* every r when W is empty.
C1_WatchedIffMember ==
    probe.applied =>
        /\ ~probe.out.panic
        /\ probe.out.watched
             = (probe.state_change.value.account_id \in Members(probe.list))
        /\ (probe.list = <<>> => ~probe.out.watched)

\* a record of "abc" was tested against a watch-list that holds its prefix
\* "ab" and not "abc"
C1_Witness ==
    /\ probe.applied
    /\ probe.state_change.value.account_id = abc
    /\ ab \in Members(probe.list)
    /\ abc \notin Members(probe.list)
    /\ ~probe.out.watched

\* C11: for a record of each of the eight kinds the matcher finds an
\* account id, the one the record holds, never none and never the empty
\* string, and the test of the record does not panic.
C11_OwnerAlwaysFound ==
    probe.applied =>
        /\ probe.owner.some
        /\ probe.owner.s = probe.state_change.value.account_id
        /\ probe.owner.s # <<>>
        /\ ~probe.out.panic

\* the owner of a ContractCodeDeletion of the sub-account "c.ab" was
\* looked up
C11_Witness ==
    /\ probe.applied
    /\ probe.state_change.value.kind = "ContractCodeDeletion"
    /\ probe.state_change.value.account_id = c_ab
    /\ probe.owner.s = c_ab

---------------------------------------------------------------------------
(* The events the feed calls for                                           *)

IsPrefix(p, q) == Len(p) <= Len(q) /\ SubSeq(q, 1, Len(p)) = p

\* the owner of a state change is on the watch-list main built
Watched(state_change) ==
    state_change.value.account_id \in Members(watching_list)

RECURSIVE ChangesOf(_)
\* the state changes of a list of shards, shard after shard
ChangesOf(shards) ==
    IF shards = <<>> THEN <<>>
    ELSE Head(shards).state_changes \o ChangesOf(Tail(shards))

\* the two lines of the event of a state change found at a height
EventLines(height, state_change) ==
    << [line   |-> "header",
        height |-> height,
        type   |-> JString(SnakeCase(state_change.value.kind))],
       [line |-> "body", json |-> to_value(state_change)] >>

RECURSIVE LinesOfChanges(_, _)
LinesOfChanges(height, changes) ==
    IF changes = <<>> THEN <<>>
    ELSE (IF Watched(Head(changes)) THEN EventLines(height, Head(changes))
          ELSE <<>>)
         \o LinesOfChanges(height, Tail(changes))

RECURSIVE LinesOfFeed(_)
\* the lines of the watched state changes of a list of messages
LinesOfFeed(msgs) ==
    IF msgs = <<>> THEN <<>>
    ELSE LinesOfChanges(Head(msgs).block.header.height,
                        ChangesOf(Head(msgs).shards))
         \o LinesOfFeed(Tail(msgs))

\* the indices of the first lines of the events written so far
Headers == {i \in 1..Len(stdout) : stdout[i].line = "header"}

\* the state change a line was written for
ChangeAt(i) ==
    sent[origin[i][1]].shards[origin[i][2]].state_changes[origin[i][3]]

\* the feed holds a state change that is not watched
SomeUnwatched ==
    \E k \in 1..Len(sent) :
        \E c \in 1..Len(ChangesOf(sent[k].shards)) :
            ~Watched(ChangesOf(sent[k].shards)[c])

\* C2: the output is at every moment a prefix of the lines of the watched
\* state changes of the feed, in feed order, and is all of them whenever
\* no message is waiting or in flight: every watched state change is
\* printed exactly once, and no other.
C2_ExactlyTheWatched ==
    /\ IsPrefix(stdout, LinesOfFeed(sent))
    /\ (chan = <<>> /\ in_progress = <<>>) => stdout = LinesOfFeed(sent)

\* main has returned after two blocks, with events printed and a state
\* change of the feed left out
C2_Witness ==
    /\ pc = "done"
    /\ Len(sent) >= 2
    /\ Len(stdout) >= 4
    /\ SomeUnwatched

\* C3: the events of one block are printed in the order of discovery:
\* of two events of the same block, the one printed first stands in an
\* earlier shard, or in the same shard at an earlier state change.
C3_DiscoveryOrder ==
    \A i, j \in Headers :
        (i < j /\ origin[i][1] = origin[j][1]) =>
            \/ origin[i][2] < origin[j][2]
            \/ origin[i][2] = origin[j][2] /\ origin[i][3] < origin[j][3]

\* three events of one block are printed: one of a first shard, then two
\* of a later shard
C3_Witness ==
    \E i, j, k \in Headers :
        /\ i < j /\ j < k
        /\ origin[i][1] = origin[j][1] /\ origin[j][1] = origin[k][1]
        /\ origin[i][2] < origin[j][2]
        /\ origin[j][2] = origin[k][2]

\* C4: the lines of an earlier block of the feed are all printed before
\* the lines of a later block, and the heights printed never decrease.
C4_ArrivalOrder ==
    /\ \A i, j \in 1..Len(stdout) : i < j => origin[i][1] <= origin[j][1]
    /\ \A i, j \in Headers : i < j => stdout[i].height <= stdout[j].height

\* events of two blocks are printed
C4_Witness ==
    \E i, j \in Headers :
        /\ origin[i][1] < origin[j][1]
        /\ stdout[i].height < stdout[j].height

\* C5: every event carries the height of the message that held its state
\* change: the first line has the height of that message and the type of
\* that state change, the second line is that state change.
C5_HeightOfOwnBlock ==
    \A i \in 1..Len(stdout) :
        IF stdout[i].line = "header"
        THEN /\ stdout[i].height = sent[origin[i][1]].block.header.height
             /\ stdout[i].type = JString(SnakeCase(ChangeAt(i).value.kind))
        ELSE stdout[i].json = to_value(ChangeAt(i))

\* the first line of an event of the first block is printed while the
\* second block is already in the channel
C5_Witness ==
    /\ Len(sent) >= 2
    /\ chan # <<>>
    /\ \E f \in 1..Len(in_progress) :
          /\ in_progress[f].phase = "body"
          /\ in_progress[f].streamer_message = sent[1]
    /\ stdout # <<>>
    /\ origin[Len(origin)][1] = 1

---------------------------------------------------------------------------
(* Startup                                                                 *)

\* the pieces of the --accounts argument
Pieces == Split(accounts, Comma)

\* C6: with an empty watch-list the program starts without error, runs
\* the pipeline and prints nothing.
C6_EmptyWatchListRuns ==
    accounts = <<>> => (pc # "panicked" /\ stdout = <<>>)

\* C7: when a piece of the --accounts argument is no account id, main
\* panics at once: the stream is never instantiated, no message is sent or
\* pulled, nothing is printed and no watch-list is built.
C7_InvalidEntryIsFatal ==
    (\E i \in 1..Len(Pieces) : ~is_valid(Pieces[i])) =>
        /\ pc \in {"args", "panicked"}
        /\ watching_list = <<>>
        /\ ~feedOpen
        /\ sent = <<>> /\ chan = <<>> /\ in_progress = <<>>
        /\ stdout = <<>>

\* main has panicked on an argument with an account id and a piece that
\* is none
C7_Witness ==
    /\ pc = "panicked"
    /\ \E i \in 1..Len(Pieces) : is_valid(Pieces[i])
    /\ \E i \in 1..Len(Pieces) : ~is_valid(Pieces[i])

---------------------------------------------------------------------------
(* Termination                                                             *)

\* a step of the task main: its own lines and the handlers it polls
MainStep ==
    \/ BuildWatchingList
    \/ InstantiateStream
    \/ Pull
    \/ \E i \in 1..Len(in_progress) : HandleStateChange(i)
    \/ \E i \in 1..Len(in_progress) : PrintBody(i)
    \/ \E i \in 1..Len(in_progress) : HandlerReturn(i)
    \/ MainReturn

\* the runtime keeps polling main while main can take a step; the feed is
\* under no obligation to send or to close
Fairness == WF_vars(MainStep)

FairSpec == Spec /\ Fairness

\* C8: once the feed has closed, main pulls every message still in the
\* channel, finishes the handlers and returns Ok; nothing is printed when
\* no state change of the feed is watched.
C8_TerminatesAfterClose ==
    (pc = "loop" /\ ~feedOpen) ~>
        (/\ pc = "done"
         /\ chan = <<>>
         /\ in_progress = <<>>
         /\ stdout = LinesOfFeed(sent)
         /\ (LinesOfFeed(sent) = <<>> => stdout = <<>>))

\* main has returned after two blocks with state changes, none of them
\* watched, and nothing is printed
C8_Witness ==
    /\ pc = "done"
    /\ Len(sent) >= 2
    /\ \A k \in 1..Len(sent) : ChangesOf(sent[k].shards) # <<>>
    /\ LinesOfFeed(sent) = <<>>
    /\ stdout = <<>>

---------------------------------------------------------------------------
(* Backpressure                                                            *)

\* C9: the messages pulled from the channel whose handler has not returned
\* are never more than the bound of buffer_unordered.
C9_InFlightBound ==
    Len(in_progress) <= BufferSize

\* the bound is reached by the first message while the feed has sent
\* further messages, which wait in the channel
C9_Witness ==
    /\ Len(in_progress) = BufferSize
    /\ chan # <<>>
    /\ Len(sent) = Len(chan) + Len(in_progress)

---------------------------------------------------------------------------
(* Interruption                                                            *)

\* main installs no signal handler and polls no shutdown future: an
\* interrupt ends the process where it stands
Cancel ==
    /\ pc = "loop"
    /\ pc' = "killed"
    /\ UNCHANGED <<accounts, start_block_height, watching_list, feedOpen,
                   sent, chan, in_progress, stdout, origin, probe, feedError, sinkReady>>

NextCancel == Next \/ Cancel

SpecCancel == Init /\ [][NextCancel]_vars

\* the messages main has pulled from the channel
Pulled == SubSeq(sent, 1, Len(sent) - Len(chan))

\* C10: after a cancellation the blocks in flight are finished: every
\* watched state change of every pulled message is printed, with both of
\* its lines; no block is left with a part of its events, no event with
\* one of its lines.
C10_CancelFinishesInFlight ==
    pc = "killed" => stdout = LinesOfFeed(Pulled)

---------------------------------------------------------------------------
(* Failure of the feed                                                     *)

\* the Lake framework gives up on an error: all main can see of it is the
\* sender being dropped, as the channel carries StreamerMessage values only
FeedFail ==
    /\ feedOpen
    /\ pc = "loop"
    /\ feedOpen' = FALSE
    /\ feedError' = TRUE
    /\ UNCHANGED <<accounts, start_block_height, pc, watching_list, sent,
                   chan, in_progress, stdout, origin, probe, sinkReady>>

NextFail == Next \/ FeedFail

SpecFail == Init /\ [][NextFail]_vars

\* C12: when the feed fails the run ends reporting the failure, not as a
\* normal completion: main does not return Ok after a failure of the feed.
C12_FailureIsReported ==
    feedError => pc # "done"

---------------------------------------------------------------------------
(* A reader of stdout that stalls                                          *)

\* the reader of stdout stops taking lines (the pipe is full)
SinkStall ==
    /\ pc = "loop"
    /\ sinkReady
    /\ sinkReady' = FALSE
    /\ UNCHANGED <<accounts, start_block_height, pc, watching_list, feedOpen,
                   sent, chan, in_progress, stdout, origin, probe, feedError>>

\* the reader of stdout takes lines again
SinkResume ==
    /\ ~sinkReady
    /\ sinkReady' = TRUE
    /\ UNCHANGED <<accounts, start_block_height, pc, watching_list, feedOpen,
                   sent, chan, in_progress, stdout, origin, probe, feedError>>

NextSink == Next \/ SinkStall \/ SinkResume

SpecSink == Init /\ [][NextSink]_vars

\* the state changes a handler has passed
Passed(fut) ==
    [k \in 1..(fut.next - 1) |->
        fut.streamer_message.shards[fut.order[k][1]]
           .state_changes[fut.order[k][2]]]

\* the lines due so far: all lines of the messages whose handler has
\* returned, and for the message in flight the lines of the state changes
\* its handler has passed, and the first line of the one it stands at when
\* that line is printed
LinesDue ==
    IF in_progress = <<>> THEN LinesOfFeed(Pulled)
    ELSE LET fut    == in_progress[1]
             height == fut.streamer_message.block.header.height
         IN  LinesOfFeed(SubSeq(Pulled, 1, Len(Pulled) - 1))
             \o LinesOfChanges(height, Passed(fut))
             \o (IF fut.phase = "body"
                 THEN <<EventLines(height, Current(fut))[1]>>
                 ELSE <<>>)

\* C13: whether the reader of stdout takes lines or not, a handler never
\* passes a watched state change without its two lines printed, in order
\* and once: the output is exactly the lines due for the place the handler
\* stands at; and no more messages are pulled than the bound allows.
C13_BlocksNeverDrops ==
    /\ Len(in_progress) <= BufferSize
    /\ stdout = LinesDue

\* the reader has stalled after the first line of an event; the second
\* line is pending and a further message waits in the channel
C13_Witness ==
    /\ ~sinkReady
    /\ chan # <<>>
    /\ \E f \in 1..Len(in_progress) : in_progress[f].phase = "body"

---------------------------------------------------------------------------
(* AccountId::from_str applied to every raw string                        *)

\* the characters of the raw strings: two letters, a separator and a
\* character no account id holds
RawChars == {"a", "b", ".", "!"}

InitValidate ==
    /\ accounts = <<>>
    /\ start_block_height \in StartHeights
    /\ pc = "validate"
    /\ watching_list = <<>>
    /\ feedOpen = FALSE
    /\ sent = <<>>
    /\ chan = <<>>
    /\ in_progress = <<>>
    /\ stdout = <<>>
    /\ origin = <<>>
    /\ feedError = FALSE
    /\ sinkReady = TRUE
    /\ \E raw \in BoundedSeq(RawChars, MaxRawLen) :
          probe = [raw |-> raw, applied |-> FALSE,
                   first  |-> [ok |-> FALSE, id |-> <<>>],
                   again  |-> [ok |-> FALSE, id |-> <<>>],
                   stored |-> <<>>,
                   second |-> [ok |-> FALSE, id |-> <<>>]]

\* lines 38-40 on one piece: parse it, parse it once more, keep the string
\* of the id as the watch-list does, and parse that string
ApplyValidate ==
    /\ pc = "validate"
    /\ ~probe.applied
    /\ LET first  == from_str(probe.raw)
           stored == IF first.ok THEN to_string(first.id) ELSE <<>>
       IN  probe' = [probe EXCEPT
                       !.applied = TRUE,
                       !.first   = first,
                       !.again   = from_str(probe.raw),
                       !.stored  = stored,
                       !.second  = from_str(stored)]
    /\ UNCHANGED pipeVars

NextValidate == ApplyValidate

SpecValidate == InitValidate /\ [][NextValidate]_vars

---------------------------------------------------------------------------
(* The watch-list and the blocks, one by one                               *)

\* C15: once built, the watch-list is the list of the pieces of the
\* --accounts argument, and so is the list every handler holds, whatever
\* the handlers have done.
C15_WatchListReadOnly ==
    pc \in {"config", "loop", "done"} =>
        /\ watching_list = Pieces
        /\ \A f \in 1..Len(in_progress) :
              in_progress[f].watching_list = Pieces

\* the handler of the second block has passed a state change after lines
\* were printed
C15_Witness ==
    /\ Len(Pulled) >= 2
    /\ stdout # <<>>
    /\ \E f \in 1..Len(in_progress) : in_progress[f].next > 1

RECURSIVE LinesOfBlockFrom(_, _)
\* the lines of stdout from index i on that were written for block k
LinesOfBlockFrom(k, i) ==
    IF i > Len(stdout) THEN <<>>
    ELSE (IF origin[i][1] = k THEN <<stdout[i]>> ELSE <<>>)
         \o LinesOfBlockFrom(k, i + 1)

LinesOfBlock(k) == LinesOfBlockFrom(k, 1)

\* the handler of block k has returned
Completed(k) ==
    /\ k <= Len(Pulled)
    /\ \A f \in 1..Len(in_progress) : in_progress[f].streamer_message # sent[k]

\* a line without its height
NoHeight(l) ==
    IF l.line = "header" THEN [line |-> "header", type |-> l.type] ELSE l

NoHeights(lines) == [i \in 1..Len(lines) |-> NoHeight(lines[i])]

\* C16: the lines printed for a block are those of its own watched state
\* changes, whatever blocks came before it; two blocks with the same
\* shards get the same lines, apart from the height.
C16_StatelessAcrossBlocks ==
    /\ \A k \in 1..Len(sent) :
          Completed(k) =>
              LinesOfBlock(k) =
                  LinesOfChanges(sent[k].block.header.height,
                                 ChangesOf(sent[k].shards))
    /\ \A k1, k2 \in 1..Len(sent) :
          (Completed(k1) /\ Completed(k2) /\ sent[k1].shards = sent[k2].shards)
              => NoHeights(LinesOfBlock(k1)) = NoHeights(LinesOfBlock(k2))

\* two blocks with the same shards are handled, the second after the
\* first had lines printed
C16_Witness ==
    /\ Len(sent) >= 2
    /\ Completed(1) /\ Completed(2)
    /\ sent[1].shards = sent[2].shards
    /\ LinesOfBlock(1) # <<>>
    /\ LinesOfBlock(2) # <<>>

\* C17: the two lines of an event are next to each other: a first line is
\* the last line of the output or is followed by the second line of the
\* same state change, and a second line follows the first line of the
\* same state change.
C17_HeaderBodyAdjacent ==
    \A i \in 1..Len(stdout) :
        IF stdout[i].line = "header"
        THEN i = Len(stdout)
             \/ (stdout[i + 1].line = "body" /\ origin[i + 1] = origin[i])
        ELSE i > 1 /\ stdout[i - 1].line = "header"
                   /\ origin[i - 1] = origin[i]

\* two events of one block and an event of another block are printed
C17_Witness ==
    /\ Len(stdout) >= 6
    /\ \E i, j \in Headers :
          i < j /\ origin[i][1] = origin[j][1] /\ origin[i] # origin[j]
    /\ \E i, j \in Headers : origin[i][1] # origin[j][1]

---------------------------------------------------------------------------
(* One block handled with two watch-lists                                  *)

RECURSIVE HandlerLinesFrom(_, _)
\* the lines the loops of lines 88-105 print from the place the handler
\* stands at to the end of the message
HandlerLinesFrom(fut, k) ==
    IF k > Len(fut.order) THEN <<>>
    ELSE LET at == [fut EXCEPT !.next = k]
             m  == is_change_watched(Current(at), fut.watching_list)
         IN  (IF m.watched
              THEN <<header_line(at, to_value(Current(at))),
                     body_line(to_value(Current(at)))>>
              ELSE <<>>)
             \o HandlerLinesFrom(fut, k + 1)

\* the lines handle_streamer_message prints for a message and a list
handle_streamer_message(msg, list) ==
    HandlerLinesFrom(NewHandler(msg, list), 1)

InitSet ==
    /\ accounts = <<>>
    /\ start_block_height \in StartHeights
    /\ pc = "handle"
    /\ watching_list = <<>>
    /\ feedOpen = FALSE
    /\ sent = <<>>
    /\ chan = <<>>
    /\ in_progress = <<>>
    /\ stdout = <<>>
    /\ origin = <<>>
    /\ feedError = FALSE
    /\ sinkReady = TRUE
    /\ \E shape \in BlockShapes,
          list1 \in BoundedSeq(FeedAccounts, MaxWatch),
          list2 \in BoundedSeq(FeedAccounts, MaxWatch) :
          probe = [msg |-> StreamerMessage(start_block_height, shape),
                   list1 |-> list1, list2 |-> list2, applied |-> FALSE,
                   out1 |-> <<>>, out2 |-> <<>>]

ApplyHandler ==
    /\ pc = "handle"
    /\ ~probe.applied
    /\ probe' = [probe EXCEPT
                   !.applied = TRUE,
                   !.out1 = handle_streamer_message(probe.msg, probe.list1),
                   !.out2 = handle_streamer_message(probe.msg, probe.list2)]
    /\ UNCHANGED pipeVars

NextSet == ApplyHandler

SpecSet == InitSet /\ [][NextSet]_vars

\* the state changes of a message owned by an account of a list
OwnedBy(msg, list) ==
    {k \in 1..Len(ChangesOf(msg.shards)) :
        ChangesOf(msg.shards)[k].value.account_id \in Members(list)}

\* C18: two watch-lists with the same account ids, in whatever order and
\* however often repeated, give the same lines for a block; each state
\* change owned by a listed account gets its two lines once.
C18_WatchListIsASet ==
    probe.applied =>
        /\ Members(probe.list1) = Members(probe.list2)
              => probe.out1 = probe.out2
        /\ Len(probe.out1) = 2 * Cardinality(OwnedBy(probe.msg, probe.list1))

\* a block with state changes of "ab" was handled with the lists
\* <<ab, ab>> and <<ab>>
C18_Witness ==
    /\ probe.applied
    /\ probe.list1 = <<ab, ab>>
    /\ probe.list2 = <<ab>>
    /\ probe.out1 # <<>>

=============================================================================
